---- MODULE Spec2Model ----
(***************************************************************************)
(* Model of the RedisInstance managed-resource controller of               *)
(* provider-alibaba: the external client (Observe / Create / Update /      *)
(* Delete, pkg/controller/redis/redisinstance.go) and the cloud client     *)
(* adapter it calls (pkg/clients/redis/redis.go).                          *)
(*                                                                         *)
(* The vendor SDK, the Kubernetes API server and the password generator    *)
(* are the environment: every answer they can give is an input of the      *)
(* action that calls them.                                                 *)
(***************************************************************************)
EXTENDS Integers, Sequences, FiniteSets, TLC

\* ------------------------------------------------------------------------
\* Bounds
\* ------------------------------------------------------------------------

\* number of distinct instance IDs the vendor can hand out
MaxIds == 2

\* ------------------------------------------------------------------------
\* Literals of the source
\* ------------------------------------------------------------------------

errNotInstance == "managed resource is not an instance custom resource"
errStatusUpdate == "failed to update CR status"
errCreateFailed == "cannot create redis instance"
errDeleteFailed == "cannot delete redis instance"
errDescribeFailed == "cannot describe redis instance"

errInstanceNotFound == "InstanceNotFound"
errInstanceNotFoundCode == "InvalidInstanceId.NotFound"
errDescribeInstanceFailed == "cannot describe instance attributes"
errGeneratePasswordFailed == "cannot generate a password"
errModifySpecRequired == "modify instances spec is require"

RedisInstanceStateRunning == "Normal"
RedisInstanceStateCreating == "Creating"
RedisInstanceStateDeleting == "Flushing"

\* keys of the connection secret (xpv1.ResourceCredentialsSecret*Key)
UserKey == "username"
PasswordKey == "password"
EndpointKey == "endpoint"
PortKey == "port"

\* ------------------------------------------------------------------------
\* strconv.Itoa / strconv.FormatInt(_, 10)
\* ------------------------------------------------------------------------

Digit == <<"0", "1", "2", "3", "4", "5", "6", "7", "8", "9">>

RECURSIVE Itoa(_)
Itoa(n) ==
    IF n < 0 THEN "-" \o Itoa(0 - n)
    ELSE IF n < 10 THEN Digit[n + 1]
    ELSE Itoa(n \div 10) \o Digit[(n % 10) + 1]

\* ------------------------------------------------------------------------
\* Errors.  An error value is a record with a "kind"; Nil is the nil error.
\* ------------------------------------------------------------------------

Nil == [kind |-> "nil"]

\* errors.New: a fresh pointer; "site" names the allocation, two
\* allocations are never the same pointer
ErrorsNew(msg, site) == [kind |-> "fundamental", msg |-> msg, site |-> site]

ErrorsWrapMutOpaque(err, msg) ==
    IF err = Nil THEN Nil ELSE [kind |-> "fundamental", msg |-> msg, site |-> "Wrap"]

\* errors.Wrap: nil stays nil, otherwise msg is put in front of the cause
ErrorsWrap(err, msg) ==
    IF err = Nil THEN Nil ELSE [kind |-> "wrap", msg |-> msg, cause |-> err]

\* *sdkerrors.ClientError: a failure on the client side of the SDK
ClientError(code) == [kind |-> "client", code |-> code]

\* errors.As(err, &srverr): the first *ServerError of the chain, or Nil
RECURSIVE ErrorsAsServerError(_)
ErrorsAsServerError(err) ==
    IF err.kind = "server" THEN err
    ELSE IF err.kind = "wrap" THEN ErrorsAsServerError(err.cause)
    ELSE Nil

\* errors.Is(err, target): some error of the chain is identical to target
RECURSIVE ErrorsIs(_, _)
ErrorsIs(err, target) ==
    IF err = target THEN TRUE
    ELSE IF err.kind = "wrap" THEN ErrorsIs(err.cause, target)
    ELSE FALSE

MarshalCleanedServerErrorMutRequestId(err) ==
    [HttpStatus |-> err.httpStatus, HostId |-> err.hostId, Code |-> err.code,
     Message |-> err.message, Comment |-> err.comment,
     RequestId |-> err.requestId]

\* json.Marshal(CleanedServerError{...}): the JSON object, as a function
\* from the struct's field names to the values
MarshalCleanedServerError(err) ==
    [HttpStatus |-> err.httpStatus, HostId |-> err.hostId, Code |-> err.code,
     Message |-> err.message, Comment |-> err.comment]

\* jmespath.Search(key, data) of sdkerrors.NewServerError: the value of a
\* top-level key of the decoded response content, "" when it is absent
JsonField(content, key) ==
    IF key \in DOMAIN content THEN content[key] ELSE ""

\* sdkerrors.NewServerError(httpStatus, responseContent, comment)
NewServerError(httpStatus, content, comment) ==
    [kind |-> "server", httpStatus |-> httpStatus,
     requestId |-> JsonField(content, "RequestId"),
     hostId |-> JsonField(content, "HostId"),
     code |-> JsonField(content, "Code"),
     recommend |-> JsonField(content, "Recommend"),
     message |-> JsonField(content, "Message"),
     comment |-> comment]

\* the troubleshooting link of a vendor error: it embeds the request ID
RecommendUrl(requestId) ==
    "https://api.aliyun.com/troubleshoot?requestId=" \o requestId

\* the response content of a failed vendor call, and the *sdkerrors.ServerError
\* the SDK builds from it
VendorErrorContent(code, message, requestId) ==
    [RequestId |-> requestId, HostId |-> "r-kvstore.aliyuncs.com",
     Code |-> code, Recommend |-> RecommendUrl(requestId),
     Message |-> message]

ServerError(httpStatus, code, message, requestId) ==
    NewServerError(httpStatus, VendorErrorContent(code, message, requestId), "")

CleanErrorMutAsIs(err) ==
    err

\* CleanError: a server error is rebuilt from its status, host, code,
\* message and comment, without the request ID; any other error is
\* returned as it is
CleanError(err) ==
    IF err = Nil THEN Nil
    ELSE IF err.kind = "server"
         THEN NewServerError(err.httpStatus, MarshalCleanedServerError(err),
                             err.comment)
         ELSE err

IsErrorNotFoundMutAny(err) ==
    err # Nil

\* IsErrorNotFound
IsErrorNotFound(err) ==
    IF err = Nil THEN FALSE
    ELSE LET srverr == ErrorsAsServerError(err)
         IN  IF srverr = Nil
             THEN ErrorsIs(err, ErrorsNew(errInstanceNotFound, "IsErrorNotFound"))
             ELSE srverr.code = errInstanceNotFoundCode

\* resource.Ignore(redis.IsErrorNotFound, err)
IgnoreNotFound(err) == IF IsErrorNotFound(err) THEN Nil ELSE err

\* ------------------------------------------------------------------------
\* Connection details
\* ------------------------------------------------------------------------

\* cd[key] = []byte(value)
Put(cd, key, value) ==
    [k \in (DOMAIN cd) \cup {key} |-> IF k = key THEN value ELSE cd[k]]

\* managed.ConnectionDetails{}
EmptyConnectionDetails == [k \in {} |-> ""]

getConnectionDetailsMutAlwaysPassword(c) ==
    LET cd0 == EmptyConnectionDetails
        cd1 == IF c.Username # "" THEN Put(cd0, UserKey, c.Username) ELSE cd0
        cd2 == Put(cd1, PasswordKey, c.Password)
        cd3 == IF c.ConnectionDomain # ""
               THEN Put(cd2, EndpointKey, c.ConnectionDomain) ELSE cd2
        cd4 == IF c.Port # "" THEN Put(cd3, PortKey, c.Port) ELSE cd3
    IN  cd4

\* getConnectionDetails
getConnectionDetails(c) ==
    LET cd0 == EmptyConnectionDetails
        cd1 == IF c.Username # "" THEN Put(cd0, UserKey, c.Username) ELSE cd0
        cd2 == IF c.Password # "" THEN Put(cd1, PasswordKey, c.Password) ELSE cd1
        cd3 == IF c.ConnectionDomain # ""
               THEN Put(cd2, EndpointKey, c.ConnectionDomain) ELSE cd2
        cd4 == IF c.Port # "" THEN Put(cd3, PortKey, c.Port) ELSE cd3
    IN  cd4

\* ------------------------------------------------------------------------
\* The environment: what the vendor SDK, the API server and the password
\* generator can answer
\* ------------------------------------------------------------------------

InstanceIds == {"r-" \o Itoa(i) : i \in 1..MaxIds}

\* connection domain and port of an instance: not yet allocated, or allocated
Endpoints ==
    {[ConnectionDomain |-> "", Port |-> 0],
     [ConnectionDomain |-> "r-1.redis.rds.aliyuncs.com", Port |-> 6379]}
VendorStatuses == {RedisInstanceStateRunning, RedisInstanceStateCreating,
                   RedisInstanceStateDeleting, "Inactive"}

\* errors of a vendor call: a not-found server error, another server
\* error, and an error that is no server error
VendorErrors ==
    {ServerError(404, errInstanceNotFoundCode, "instance is not found", "req-1"),
     ServerError(400, "Throttling.User", "request was denied", "req-2"),
     ClientError("SDK.Timeout")}

\* aliredis.DBInstanceAttribute, the fields the controller reads
DBInstanceAttributes ==
    {[InstanceStatus |-> st, ConnectionDomain |-> e.ConnectionDomain,
      Port |-> e.Port] : st \in VendorStatuses, e \in Endpoints}

\* answers of redisCli.DescribeInstanceAttribute
DescribeResponses ==
    {[err |-> e, instances |-> <<>>] : e \in VendorErrors}
    \cup {[err |-> Nil, instances |-> <<>>]}
    \cup {[err |-> Nil, instances |-> <<a>>] : a \in DBInstanceAttributes}

\* answers of redisCli.CreateInstance
CreateResponses ==
    {[err |-> e, InstanceId |-> "", ConnectionDomain |-> "", Port |-> 0] :
        e \in VendorErrors}
    \cup {[err |-> Nil, InstanceId |-> id,
            ConnectionDomain |-> e.ConnectionDomain, Port |-> e.Port] :
            id \in InstanceIds, e \in Endpoints}

\* answers of redisCli.DeleteInstance and redisCli.ModifyInstanceSpec
PlainResponses == {[err |-> e] : e \in VendorErrors \cup {Nil}}

\* answers of kubeClient.Status().Update
StatusUpdateErrors == {Nil, [kind |-> "kube", msg |-> "conflict"]}

\* answers of password.Generate
PasswordResults ==
    {[pw |-> "generated-pw", err |-> Nil],
     [pw |-> "", err |-> [kind |-> "rand", msg |-> "entropy"]]}

\* ------------------------------------------------------------------------
\* Cloud client adapter (pkg/clients/redis)
\* ------------------------------------------------------------------------

NoAttr == [InstanceStatus |-> "", ConnectionDomain |-> "", Port |-> 0]
NoConn == [Username |-> "", Password |-> "", ConnectionDomain |-> "", Port |-> ""]
NoResp == [InstanceId |-> "", ConnectionDomain |-> "", Port |-> 0]

DescribeInstanceMutPassword(id, resp) ==
    LET call == [api |-> "DescribeInstanceAttribute", InstanceId |-> id]
    IN  IF resp.err # Nil
        THEN [attr |-> NoAttr, conn |-> NoConn, calls |-> <<call>>,
              err |-> ErrorsWrap(CleanError(resp.err), errDescribeInstanceFailed)]
        ELSE IF Len(resp.instances) = 0
        THEN [attr |-> NoAttr, conn |-> NoConn, calls |-> <<call>>,
              err |-> ErrorsNew(errInstanceNotFound, "DescribeInstance")]
        ELSE LET attr == resp.instances[1]
             IN  [attr |-> attr,
                  conn |-> [Username |-> "", Password |-> "user-pw",
                            ConnectionDomain |-> attr.ConnectionDomain,
                            Port |-> Itoa(attr.Port)],
                  calls |-> <<call>>, err |-> Nil]

\* client.DescribeInstance
DescribeInstance(id, resp) ==
    LET call == [api |-> "DescribeInstanceAttribute", InstanceId |-> id]
    IN  IF resp.err # Nil
        THEN [attr |-> NoAttr, conn |-> NoConn, calls |-> <<call>>,
              err |-> ErrorsWrap(CleanError(resp.err), errDescribeInstanceFailed)]
        ELSE IF Len(resp.instances) = 0
        THEN [attr |-> NoAttr, conn |-> NoConn, calls |-> <<call>>,
              err |-> ErrorsNew(errInstanceNotFound, "DescribeInstance")]
        ELSE LET attr == resp.instances[1]
             IN  [attr |-> attr,
                  conn |-> [Username |-> "", Password |-> "",
                            ConnectionDomain |-> attr.ConnectionDomain,
                            Port |-> Itoa(attr.Port)],
                  calls |-> <<call>>, err |-> Nil]

\* client.CreateInstance, the password of the request: the generated
\* password when the spec has none
CreateInstancePassword(p, gen) ==
    IF p.Password = "" THEN gen.pw ELSE ""

\* client.CreateInstance
CreateInstance(externalName, p, gen, resp) ==
    IF p.Password = "" /\ gen.err # Nil
    THEN [resp |-> NoResp, conn |-> NoConn, calls |-> <<>>,
          err |-> ErrorsWrap(gen.err, errGeneratePasswordFailed)]
    ELSE
    LET pw == CreateInstancePassword(p, gen)
        request == [api |-> "CreateInstance", InstanceName |-> externalName,
                    InstanceClass |-> p.InstanceClass, Password |-> pw]
    IN  IF resp.err # Nil
        THEN [resp |-> NoResp, conn |-> NoConn, calls |-> <<request>>,
              err |-> CleanError(resp.err)]
        ELSE [resp |-> [InstanceId |-> resp.InstanceId,
                        ConnectionDomain |-> resp.ConnectionDomain,
                        Port |-> resp.Port],
              conn |-> [Username |-> resp.InstanceId, Password |-> pw,
                        ConnectionDomain |-> resp.ConnectionDomain,
                        Port |-> Itoa(resp.Port)],
              calls |-> <<request>>, err |-> Nil]

DeleteInstanceMutRetry(id, resp) ==
    LET call == [api |-> "DeleteInstance", InstanceId |-> id]
    IN  [calls |-> IF resp.err = Nil THEN <<call>> ELSE <<call, call>>,
         err |-> CleanError(resp.err)]

\* client.DeleteInstance
DeleteInstance(id, resp) ==
    [calls |-> <<[api |-> "DeleteInstance", InstanceId |-> id]>>,
     err |-> CleanError(resp.err)]

\* client.modifyInstanceSpec
modifyInstanceSpec(id, req, resp) ==
    [calls |-> <<[api |-> "ModifyInstanceSpec", InstanceId |-> id,
                  InstanceClass |-> req.InstanceClass]>>,
     err |-> CleanError(resp.err)]

UpdateInstanceMutNoCall(id, req, resp) ==
    [calls |-> <<>>, err |-> Nil]

\* client.UpdateInstance
UpdateInstance(id, req, resp) ==
    IF req.InstanceClass = ""
    THEN [calls |-> <<>>, err |-> ErrorsNew(errModifySpecRequired, "UpdateInstance")]
    ELSE modifyInstanceSpec(id, req, resp)

\* redis.GenerateObservation
GenerateObservation(attr) ==
    [InstanceStatus |-> attr.InstanceStatus,
     ConnectionDomain |-> attr.ConnectionDomain,
     Port |-> Itoa(attr.Port)]

\* ------------------------------------------------------------------------
\* External resource controller (pkg/controller/redis)
\* ------------------------------------------------------------------------

\* the resource: external-name annotation, spec.forProvider,
\* status.atProvider and the reason of the Ready condition
VARIABLES cr, last
vars == <<cr, last>>

\* xpv1.Available() / Creating() / Deleting() / Unavailable(), by reason
Available == "Available"
Creating == "Creating"
Deleting == "Deleting"
Unavailable == "Unavailable"

\* managed.ExternalObservation{}
EmptyObservation ==
    [ResourceExists |-> FALSE, ResourceUpToDate |-> FALSE,
     ConnectionDetails |-> EmptyConnectionDetails]

ObservationNotExistsMutExists ==
    [ResourceExists |-> TRUE, ResourceUpToDate |-> FALSE,
     ConnectionDetails |-> EmptyConnectionDetails]

\* managed.ExternalObservation{ResourceExists: false}
ObservationNotExists ==
    [ResourceExists |-> FALSE, ResourceUpToDate |-> FALSE,
     ConnectionDetails |-> EmptyConnectionDetails]

\* managed.ExternalCreation{} and managed.ExternalUpdate{}
EmptyCreation == [ConnectionDetails |-> EmptyConnectionDetails]
EmptyUpdate == [ConnectionDetails |-> EmptyConnectionDetails]

\* the result of Delete is its error alone
NoOutput == [none |-> TRUE]

ObservedConditionMutNoDeleting(status) ==
    IF status = RedisInstanceStateRunning THEN Available
    ELSE IF status = RedisInstanceStateCreating THEN Creating
    ELSE Unavailable

\* the switch of Observe on the observed status
ObservedCondition(status) ==
    IF status = RedisInstanceStateRunning THEN Available
    ELSE IF status = RedisInstanceStateCreating THEN Creating
    ELSE IF status = RedisInstanceStateDeleting THEN Deleting
    ELSE Unavailable

ObservationExistsMutNotUpToDate(conn) ==
    [ResourceExists |-> TRUE, ResourceUpToDate |-> FALSE,
     ConnectionDetails |-> getConnectionDetails(conn)]

\* the observation Observe returns after a successful describe
ObservationExists(conn) ==
    [ResourceExists |-> TRUE, ResourceUpToDate |-> TRUE,
     ConnectionDetails |-> getConnectionDetails(conn)]

ObserveDescribeErrorMutNoIgnore(err) ==
    ErrorsWrap(err, errDescribeFailed)

\* the error Observe returns for a failed describe
ObserveDescribeError(err) ==
    ErrorsWrap(IgnoreNotFound(err), errDescribeFailed)

\* external.Observe; ok is the outcome of mg.(*v1alpha1.RedisInstance)
Observe(c, ok, dresp) ==
    IF ~ok
    THEN [cr |-> c, out |-> EmptyObservation, calls |-> <<>>,
          err |-> ErrorsNew(errNotInstance, "Observe")]
    ELSE
    LET instanceId == c.externalName
    IN  IF instanceId = ""
        THEN [cr |-> c, out |-> ObservationNotExists, calls |-> <<>>, err |-> Nil]
        ELSE
        LET d == DescribeInstance(instanceId, dresp)
        IN  IF d.err # Nil
            THEN [cr |-> c, out |-> EmptyObservation, calls |-> d.calls,
                  err |-> ObserveDescribeError(d.err)]
            ELSE
            LET at == GenerateObservation(d.attr)
            IN  [cr |-> [c EXCEPT !.atProvider = at,
                                  !.condition = ObservedCondition(at.InstanceStatus)],
                 out |-> ObservationExists(d.conn),
                 calls |-> d.calls, err |-> Nil]

CreateStatusUpdateFailedMutIgnored(err) ==
    FALSE

\* the check of Create on the result of kubeClient.Status().Update
CreateStatusUpdateFailed(err) ==
    err # Nil

CreateMutWritesPassword(c, ok, updErr, gen, cresp) ==
    IF ~ok
    THEN [cr |-> c, out |-> EmptyCreation, calls |-> <<>>,
          err |-> ErrorsNew(errNotInstance, "Create")]
    ELSE
    LET c1 == [c EXCEPT !.condition = Creating]
        upd == [api |-> "StatusUpdate", condition |-> c1.condition]
    IN  IF CreateStatusUpdateFailed(updErr)
        THEN [cr |-> c1, out |-> EmptyCreation, calls |-> <<upd>>,
              err |-> ErrorsWrap(updErr, errStatusUpdate)]
        ELSE
        LET r == CreateInstance(c1.name, c1.forProvider, gen, cresp)
        IN  IF r.err # Nil
            THEN [cr |-> c1, out |-> EmptyCreation, calls |-> <<upd>> \o r.calls,
                  err |-> ErrorsWrap(r.err, errCreateFailed)]
            ELSE [cr |-> [c1 EXCEPT !.externalName = r.resp.InstanceId,
                                   !.forProvider.Password = r.conn.Password],
                  out |-> [ConnectionDetails |-> getConnectionDetails(r.conn)],
                  calls |-> <<upd>> \o r.calls, err |-> Nil]

\* external.Create
Create(c, ok, updErr, gen, cresp) ==
    IF ~ok
    THEN [cr |-> c, out |-> EmptyCreation, calls |-> <<>>,
          err |-> ErrorsNew(errNotInstance, "Create")]
    ELSE
    LET c1 == [c EXCEPT !.condition = Creating]
        upd == [api |-> "StatusUpdate", condition |-> c1.condition]
    IN  IF CreateStatusUpdateFailed(updErr)
        THEN [cr |-> c1, out |-> EmptyCreation, calls |-> <<upd>>,
              err |-> ErrorsWrap(updErr, errStatusUpdate)]
        ELSE
        LET r == CreateInstance(c1.name, c1.forProvider, gen, cresp)
        IN  IF r.err # Nil
            THEN [cr |-> c1, out |-> EmptyCreation, calls |-> <<upd>> \o r.calls,
                  err |-> ErrorsWrap(r.err, errCreateFailed)]
            ELSE [cr |-> [c1 EXCEPT !.externalName = r.resp.InstanceId],
                  out |-> [ConnectionDetails |-> getConnectionDetails(r.conn)],
                  calls |-> <<upd>> \o r.calls, err |-> Nil]

\* external.Update
Update(c, ok, mresp) ==
    IF ~ok
    THEN [cr |-> c, out |-> EmptyUpdate, calls |-> <<>>,
          err |-> ErrorsNew(errNotInstance, "Update")]
    ELSE
    LET c1 == [c EXCEPT !.condition = Creating]
        description == c1.forProvider
        modifyReq == [InstanceClass |-> description.InstanceClass]
        r == UpdateInstance(c1.externalName, modifyReq, mresp)
    IN  [cr |-> c1, out |-> EmptyUpdate, calls |-> r.calls, err |-> r.err]

DeleteMutClearsName(c, ok, dresp) ==
    IF ~ok
    THEN [cr |-> c, out |-> NoOutput, calls |-> <<>>,
          err |-> ErrorsNew(errNotInstance, "Delete")]
    ELSE
    LET c1 == [c EXCEPT !.condition = Deleting]
        r == DeleteInstance(c1.externalName, dresp)
    IN  [cr |-> [c1 EXCEPT !.externalName = ""], out |-> NoOutput,
         calls |-> r.calls,
         err |-> ErrorsWrap(IgnoreNotFound(r.err), errDeleteFailed)]

\* external.Delete
Delete(c, ok, dresp) ==
    IF ~ok
    THEN [cr |-> c, out |-> NoOutput, calls |-> <<>>,
          err |-> ErrorsNew(errNotInstance, "Delete")]
    ELSE
    LET c1 == [c EXCEPT !.condition = Deleting]
        r == DeleteInstance(c1.externalName, dresp)
    IN  [cr |-> c1, out |-> NoOutput, calls |-> r.calls,
         err |-> ErrorsWrap(IgnoreNotFound(r.err), errDeleteFailed)]

\* ------------------------------------------------------------------------
\* The state machine: the host calls one operation at a time on the
\* resource and keeps what the operation wrote to it
\* ------------------------------------------------------------------------

\* a resource as a user applies it: no status, the external name unset
\* or set by hand (SetupRedisInstance installs no initializer)
InitialResources ==
    [name : {"testName"},
     externalName : {"", "r-1"},
     forProvider : [Password : {"", "user-pw"},
                    InstanceClass : {"", "redis.master.small.default"}],
     atProvider : {[InstanceStatus |-> "", ConnectionDomain |-> "", Port |-> ""]},
     condition : {""}]

Init ==
    /\ cr \in InitialResources
    /\ last = [op |-> "none", ok |-> TRUE, in |-> NoOutput, pre |-> cr,
               out |-> NoOutput, err |-> Nil, calls |-> <<>>]

\* the record of a call: the operation, its inputs, the resource before
\* it, what it returned and the calls it issued, in order
Called(op, ok, in, r) ==
    /\ cr' = r.cr
    /\ last' = [op |-> op, ok |-> ok, in |-> in, pre |-> cr,
                out |-> r.out, err |-> r.err, calls |-> r.calls]

CallObserve ==
    \E ok \in BOOLEAN, d \in DescribeResponses :
        Called("Observe", ok, [describe |-> d], Observe(cr, ok, d))

CallCreate ==
    \E ok \in BOOLEAN, u \in StatusUpdateErrors, g \in PasswordResults,
       c \in CreateResponses :
        Called("Create", ok, [update |-> u, gen |-> g, create |-> c],
               Create(cr, ok, u, g, c))

CallUpdate ==
    \E ok \in BOOLEAN, m \in PlainResponses :
        Called("Update", ok, [modify |-> m], Update(cr, ok, m))

CallDelete ==
    \E ok \in BOOLEAN, d \in PlainResponses :
        Called("Delete", ok, [delete |-> d], Delete(cr, ok, d))

Next == CallObserve \/ CallCreate \/ CallUpdate \/ CallDelete

Spec == Init /\ [][Next]_vars

\* ------------------------------------------------------------------------
\* The host's reconcile passes (managed.Reconciler, wired in
\* SetupRedisInstance): a pass runs Observe; after an Observe that
\* reported non-existence without error it calls Create; after one that
\* reported existence it calls Delete when the user asked for deletion.
\* Observe always reports "up to date", so that a pass never calls Update.
\* ------------------------------------------------------------------------

ObservedNotExists ==
    last.op = "Observe" /\ last.err = Nil /\ ~last.out.ResourceExists

ObservedExists ==
    last.op = "Observe" /\ last.err = Nil /\ last.out.ResourceExists

HostObserve ==
    \E d \in DescribeResponses :
        Called("Observe", TRUE, [describe |-> d], Observe(cr, TRUE, d))

HostCreate ==
    /\ ObservedNotExists
    /\ \E u \in StatusUpdateErrors, g \in PasswordResults, c \in CreateResponses :
        Called("Create", TRUE, [update |-> u, gen |-> g, create |-> c],
               Create(cr, TRUE, u, g, c))

HostDelete ==
    /\ ObservedExists
    /\ \E d \in PlainResponses :
        Called("Delete", TRUE, [delete |-> d], Delete(cr, TRUE, d))

NextHost == HostObserve \/ HostCreate \/ HostDelete

\* the passes start on a resource that has no external ID yet
InitHost == Init /\ cr.externalName = ""

SpecHost == InitHost /\ [][NextHost]_vars

\* ------------------------------------------------------------------------
\* getConnectionDetails on every connection
\* ------------------------------------------------------------------------

\* redis.RedisConnection values
RedisConnections ==
    [Username : {"", "u1", "testId"},
     Password : {"", "p1", "testPassword"},
     ConnectionDomain : {"", "1.2.3.4", "172.0.0.1"},
     Port : {"", "0", "8080", "6379"}]

ApplyGetConnectionDetails ==
    /\ \E c \in RedisConnections :
        last' = [op |-> "getConnectionDetails", ok |-> TRUE, in |-> c,
                 pre |-> cr, out |-> getConnectionDetails(c), err |-> Nil,
                 calls |-> <<>>]
    /\ UNCHANGED cr

SpecConnectionDetails == Init /\ [][ApplyGetConnectionDetails]_vars

\* ------------------------------------------------------------------------
\* Properties
\* ------------------------------------------------------------------------

\* the vendor create calls a call issued
CreateCalls == {i \in DOMAIN last.calls : last.calls[i].api = "CreateInstance"}

\* a vendor error that is a server error with the not-found code
IsVendorNotFound(e) ==
    e # Nil /\ e.kind = "server" /\ e.code = errInstanceNotFoundCode

\* C1: Observe on a RedisInstance without external name reports
\* non-existence with a nil error and issues no vendor call, whatever the
\* spec and the status hold.
C1_ObserveWithoutExternalName ==
    (last.op = "Observe" /\ last.ok /\ last.pre.externalName = "")
        => /\ last.out.ResourceExists = FALSE
           /\ last.err = Nil
           /\ last.calls = <<>>

C1_Witness ==
    /\ last.op = "Observe" /\ last.ok /\ last.pre.externalName = ""
    /\ last.pre.forProvider.Password # ""
    /\ last.pre.condition = Deleting
    /\ last.out.ResourceExists = FALSE

\* C2: a Create call on a resource that carries an external ID leaves
\* the external ID as it was, whether Create fails or not.
C2_CreateKeepsExternalName ==
    (last.op = "Create" /\ last.pre.externalName # "")
        => cr.externalName = last.pre.externalName

\* C3: in the host's reconcile passes no vendor create call is issued
\* for a resource that has an external ID recorded.
C3_NoCreateCallOnceRecorded ==
    (last.pre.externalName # "") => CreateCalls = {}

\* C4: Delete on a RedisInstance returns nil exactly when the vendor
\* delete call succeeded or failed with a not-found error; otherwise it
\* returns the vendor error wrapped as a delete failure.
C4_DeleteIgnoresNotFound ==
    (last.op = "Delete" /\ last.ok)
        => LET v == last.in.delete.err
           IN  IF v = Nil \/ IsVendorNotFound(v)
               THEN last.err = Nil
               ELSE /\ last.err # Nil
                    /\ last.err.kind = "wrap"
                    /\ last.err.msg = errDeleteFailed
                    /\ last.err.cause.kind = v.kind
                    /\ last.err.cause.code = v.code

C4_Witness ==
    /\ last.op = "Delete" /\ last.ok
    /\ last.pre.atProvider.InstanceStatus = RedisInstanceStateDeleting
    /\ IsVendorNotFound(last.in.delete.err)
    /\ last.err = Nil

\* the value getConnectionDetails reads for a key
ConnectionValue(c, key) ==
    IF key = UserKey THEN c.Username
    ELSE IF key = PasswordKey THEN c.Password
    ELSE IF key = EndpointKey THEN c.ConnectionDomain
    ELSE c.Port

ConnectionKeys == {UserKey, PasswordKey, EndpointKey, PortKey}

\* C5: getConnectionDetails has a key exactly when the value of the
\* connection for it is non-empty, and the key maps to that value.
C5_ConnectionDetailsKeys ==
    (last.op = "getConnectionDetails")
        => /\ DOMAIN last.out \subseteq ConnectionKeys
           /\ \A k \in ConnectionKeys :
                /\ (k \in DOMAIN last.out) <=> (ConnectionValue(last.in, k) # "")
                /\ (k \in DOMAIN last.out) => last.out[k] = ConnectionValue(last.in, k)

C5_Witness ==
    /\ last.op = "getConnectionDetails"
    /\ last.in.Username = "u1" /\ last.in.Password = ""
    /\ last.in.ConnectionDomain = "1.2.3.4" /\ last.in.Port = "8080"
    /\ DOMAIN last.out = {UserKey, EndpointKey, PortKey}

\* C6: the vendor create request carries the password of the spec when
\* the spec has one, and otherwise a generated non-empty password, which
\* is also the password of the connection details Create returns.
C6_CreateRequestPassword ==
    (last.op = "Create" /\ last.ok)
        => \A i \in CreateCalls :
            IF last.pre.forProvider.Password # ""
            THEN last.calls[i].Password = last.pre.forProvider.Password
            ELSE /\ last.calls[i].Password # ""
                 /\ last.calls[i].Password = last.in.gen.pw
                 /\ last.err = Nil =>
                      /\ PasswordKey \in DOMAIN last.out.ConnectionDetails
                      /\ last.out.ConnectionDetails[PasswordKey] = last.in.gen.pw

\* the connection details the creation response stands for
CreatedConnection ==
    [Username |-> last.in.create.InstanceId,
     Password |-> IF last.pre.forProvider.Password # ""
                  THEN last.pre.forProvider.Password ELSE last.in.gen.pw,
     ConnectionDomain |-> last.in.create.ConnectionDomain,
     Port |-> Itoa(last.in.create.Port)]

\* C7: a successful Create records the returned instance ID as external
\* ID and returns username, password, endpoint and port of the created
\* instance, each key present when its value is non-empty.
C7_CreateConnectionDetails ==
    (last.op = "Create" /\ last.ok /\ last.err = Nil)
        => /\ cr.externalName = last.in.create.InstanceId
           /\ DOMAIN last.out.ConnectionDetails =
                {k \in ConnectionKeys : ConnectionValue(CreatedConnection, k) # ""}
           /\ \A k \in DOMAIN last.out.ConnectionDetails :
                last.out.ConnectionDetails[k] = ConnectionValue(CreatedConnection, k)

\* C8: Create sets the Creating condition and updates the status before
\* any vendor create call; when the status update fails Create returns
\* an error, issues no vendor create call and keeps the external ID.
C8_StatusUpdateBeforeCreate ==
    (last.op = "Create" /\ last.ok)
        => /\ cr.condition = Creating
           /\ Len(last.calls) >= 1
           /\ last.calls[1] = [api |-> "StatusUpdate", condition |-> Creating]
           /\ \A i \in CreateCalls : i > 1
           /\ (last.in.update # Nil)
                => /\ last.err # Nil
                   /\ CreateCalls = {}
                   /\ cr.externalName = last.pre.externalName

C8_Witness ==
    /\ last.op = "Create" /\ last.ok
    /\ last.in.update # Nil
    /\ last.in.create.err = Nil
    /\ last.pre.externalName = ""
    /\ last.err # Nil

\* the describe call of Observe returned an instance
DescribeSucceeded ==
    DescribeInstance(last.pre.externalName, last.in.describe).err = Nil

\* C9: Observe on a resource with an external ID whose describe call
\* succeeds reports the resource as existing and up to date with a nil
\* error, whatever the vendor status and the spec are.
C9_ObserveAlwaysUpToDate ==
    (/\ last.op = "Observe" /\ last.ok
     /\ last.pre.externalName # ""
     /\ DescribeSucceeded)
        => /\ last.out.ResourceExists
           /\ last.out.ResourceUpToDate
           /\ last.err = Nil

C9_Witness ==
    /\ last.op = "Observe" /\ last.ok
    /\ last.pre.externalName # ""
    /\ DescribeSucceeded
    /\ last.in.describe.instances[1].InstanceStatus = "Inactive"
    /\ last.pre.forProvider.InstanceClass # ""
    /\ last.out.ResourceUpToDate

\* C10, as claimed: a describe call of Observe that fails with a
\* not-found error makes Observe return a non-nil error.
C10_NotFoundPropagates ==
    (/\ last.op = "Observe" /\ last.ok
     /\ last.pre.externalName # ""
     /\ IsVendorNotFound(last.in.describe.err))
        => last.err # Nil

\* C10, amended: Observe ignores a describe failure that is a not-found
\* server error (nil error, empty observation, resource untouched) and
\* returns every other describe failure wrapped as a describe failure.
C10_NotFoundIgnored ==
    (/\ last.op = "Observe" /\ last.ok
     /\ last.pre.externalName # ""
     /\ ~DescribeSucceeded)
        => IF IsVendorNotFound(last.in.describe.err)
           THEN /\ last.err = Nil
                /\ last.out = EmptyObservation
                /\ cr = last.pre
           ELSE /\ last.err # Nil
                /\ last.err.kind = "wrap"
                /\ last.err.msg = errDescribeFailed
                /\ last.out = EmptyObservation

C10_Witness ==
    /\ last.op = "Observe" /\ last.ok
    /\ last.pre.externalName # ""
    /\ IsVendorNotFound(last.in.describe.err)
    /\ last.err = Nil
    /\ ~last.out.ResourceExists

\* ------------------------------------------------------------------------
\* CleanError on the errors of a failing vendor call and of its retry
\* ------------------------------------------------------------------------

\* request IDs of vendor answers; "" is an answer that carries none
RequestIds == {"", "req-1", "req-2", "req-3"}

\* HTTP status, code and message of the failures of a vendor call
FailureStatuses == {400, 404, 500}
FailureCodes == {errInstanceNotFoundCode, "Throttling.User", "InternalError"}
FailureMessages ==
    {"instance is not found", "request was denied", "internal error"}

\* a failure of a vendor call: a server answer, or an error of the SDK
\* itself; a server answer gets the request ID of the call that saw it
Failures ==
    [kind : {"server"}, httpStatus : FailureStatuses, code : FailureCodes,
     message : FailureMessages]
    \cup {[kind |-> "client", code |-> "SDK.Timeout"]}

\* the error the SDK returns for a failure seen by the call with requestId
FailureError(f, requestId) ==
    IF f.kind = "server"
    THEN ServerError(f.httpStatus, f.code, f.message, requestId)
    ELSE ClientError(f.code)

\* a call fails and is retried: the two errors differ in the request ID
ApplyCleanError ==
    /\ \E f \in Failures, r1 \in RequestIds, r2 \in RequestIds :
        LET e1 == FailureError(f, r1)
            e2 == FailureError(f, r2)
        IN  last' = [op |-> "CleanError", ok |-> TRUE,
                     in |-> [first |-> e1, second |-> e2], pre |-> cr,
                     out |-> [first |-> CleanError(e1),
                              second |-> CleanError(e2)],
                     err |-> Nil, calls |-> <<>>]
    /\ UNCHANGED cr

SpecCleanError == Init /\ [][ApplyCleanError]_vars

\* a text holds the request ID: it is the ID or the link that embeds it
ContainsRequestId(text, requestId) ==
    text = requestId \/ text = RecommendUrl(requestId)

\* the texts of a server error: what Message() and Error() show of it
ErrorTexts(e) ==
    {e.requestId, e.hostId, e.code, e.recommend, e.message, e.comment}

\* the texts of the serialized cleaned error
SerializedTexts(content) ==
    {content[k] : k \in (DOMAIN content) \ {"HttpStatus"}}

\* C11: for a server error that carries a request ID, the cleaned error
\* is a server error with the same code and HTTP status whose message,
\* whose other texts and whose serialized content hold no request ID.
C11_CleanErrorDropsRequestId ==
    (/\ last.op = "CleanError"
     /\ last.in.first.kind = "server"
     /\ last.in.first.requestId # "")
        => LET e == last.in.first
               c == last.out.first
           IN  /\ c.kind = "server"
               /\ c.code = e.code
               /\ c.httpStatus = e.httpStatus
               /\ ~ContainsRequestId(c.message, e.requestId)
               /\ \A t \in ErrorTexts(c) : ~ContainsRequestId(t, e.requestId)
               /\ \A t \in SerializedTexts(MarshalCleanedServerError(e)) :
                    ~ContainsRequestId(t, e.requestId)

C11_Witness ==
    /\ last.op = "CleanError"
    /\ last.in.first.kind = "server"
    /\ last.in.first.requestId = "req-1"
    /\ last.in.first.recommend = RecommendUrl("req-1")
    /\ last.out.first.requestId = ""
    /\ last.out.first.code = errInstanceNotFoundCode

\* C12: two server errors of the same failure that differ only in the
\* request ID are cleaned to the same error, so that an operation
\* returns the same error for the failure and for its retry.
C12_CleanErrorStableOnRetry ==
    (/\ last.op = "CleanError"
     /\ last.in.first.kind = "server")
        => /\ last.out.first = last.out.second
           /\ last.out.first.message = last.out.second.message
           /\ DeleteInstance("r-1", [err |-> last.in.first]).err
                = DeleteInstance("r-1", [err |-> last.in.second]).err

C12_Witness ==
    /\ last.op = "CleanError"
    /\ last.in.first.kind = "server"
    /\ last.in.first.requestId = "req-1"
    /\ last.in.second.requestId = "req-2"
    /\ last.in.first # last.in.second
    /\ last.out.first = last.out.second

\* ------------------------------------------------------------------------
\* Drift detectors (pkg/clients/redis): the security IP allowlist.
\* A string is the sequence of its symbols; "," is a symbol of its own.
\* ------------------------------------------------------------------------

\* number of addresses of an allowlist
MaxIps == 2

DefaultIPModifyMode == "Cover"

\* strings.Contains(s, substr)
StringsContains(s, substr) ==
    \E i \in 0..(Len(s) - Len(substr)) :
        SubSeq(s, i + 1, i + Len(substr)) = substr

\* strings.Split(s, sep) for a separator of one symbol
RECURSIVE StringsSplit(_, _)
StringsSplit(s, sep) ==
    IF \A i \in 1..Len(s) : s[i] # sep
    THEN <<s>>
    ELSE LET i == CHOOSE j \in 1..Len(s) :
                    s[j] = sep /\ \A k \in 1..(j - 1) : s[k] # sep
         IN  <<SubSeq(s, 1, i - 1)>> \o StringsSplit(SubSeq(s, i + 1, Len(s)), sep)

\* a nil request
NoRequest == [none |-> TRUE]

\* SecurityIpsNeedUpdate
SecurityIpsNeedUpdate(attr, p) ==
    IF p.SecurityIps = <<>>
    THEN NoRequest
    ELSE LET ips == StringsSplit(attr.SecurityIPList, ",")
             needUpdate == \E i \in 1..Len(ips) :
                               ~StringsContains(p.SecurityIps, ips[i])
         IN  IF needUpdate
             THEN [SecurityIps |-> p.SecurityIps,
                   ModifyMode |-> DefaultIPModifyMode]
             ELSE NoRequest

\* IPv4 addresses; the second continues the first
IpAddresses == {<<"10.0.0.", "1">>, <<"10.0.0.", "1", "1">>, <<"10.0.0.", "2">>}

\* allowlists: up to MaxIps different addresses, in some order
Allowlists ==
    {l \in UNION {[1..n -> IpAddresses] : n \in 0..MaxIps} :
        \A i, j \in 1..Len(l) : i # j => l[i] # l[j]}

\* the comma-separated string of an allowlist
RECURSIVE JoinIps(_)
JoinIps(l) ==
    IF Len(l) = 0 THEN <<>>
    ELSE IF Len(l) = 1 THEN l[1]
    ELSE l[1] \o <<",">> \o JoinIps(Tail(l))

ApplySecurityIpsNeedUpdate ==
    /\ \E configured \in Allowlists, desired \in Allowlists :
        last' = [op |-> "SecurityIpsNeedUpdate", ok |-> TRUE,
                 in |-> [configured |-> configured, desired |-> desired],
                 pre |-> cr,
                 out |-> SecurityIpsNeedUpdate(
                             [SecurityIPList |-> JoinIps(configured)],
                             [SecurityIps |-> JoinIps(desired)]),
                 err |-> Nil, calls |-> <<>>]
    /\ UNCHANGED cr

SpecSecurityIps == Init /\ [][ApplySecurityIpsNeedUpdate]_vars

\* the addresses of an allowlist
IpSet(l) == {l[i] : i \in 1..Len(l)}

\* the request that replaces the allowlist by the desired one
CoverRequest ==
    [SecurityIps |-> JoinIps(last.in.desired), ModifyMode |-> "Cover"]

\* C13: no request when the desired allowlist is empty or has every
\* configured IP; a Cover request with the desired allowlist when some
\* configured IP is missing from the desired allowlist.
C13_ConfiguredIpMissing ==
    (last.op = "SecurityIpsNeedUpdate")
        => IF \/ last.in.desired = <<>>
              \/ IpSet(last.in.configured) \subseteq IpSet(last.in.desired)
           THEN last.out = NoRequest
           ELSE last.out = CoverRequest

\* C14: for a non-empty desired allowlist with an IP that is absent from
\* the current allowlist the result is a Cover request with the desired
\* allowlist.
C14_DesiredIpAbsent ==
    (/\ last.op = "SecurityIpsNeedUpdate"
     /\ last.in.desired # <<>>
     /\ ~(IpSet(last.in.desired) \subseteq IpSet(last.in.configured)))
        => last.out = CoverRequest

\* ------------------------------------------------------------------------
\* redisConnector.Connect
\* ------------------------------------------------------------------------

errNoProvider == "no provider config or provider specified"
errCreateClient == "cannot create redis client"
errGetProviderConfig == "cannot get provider config"
errTrackUsage == "cannot track provider config usage"
errNoConnectionSecret == "no connection secret specified"
errGetConnectionSecret == "cannot get connection secret"

\* xpv1.CredentialsSourceSecret
CredentialsSourceSecret == "Secret"

\* the %q verb of fmt: the string in double quotes
Quote(s) == "\"" \o s \o "\""

UnsupportedCredSourceMutUnnamed(s) ==
    ErrorsNew("credentials source is not currently supported", "Connect")

\* errors.Errorf(errFmtUnsupportedCredSource, s)
UnsupportedCredSource(s) ==
    ErrorsNew("credentials source " \o Quote(s)
                  \o " is not currently supported", "Connect")

\* a nil pointer: no provider config reference, no secret selector, no
\* external client
NoRef == [none |-> TRUE]
NoClient == [none |-> TRUE]

\* Connect(ctx, mg).  mg is the managed resource; trackErr is the answer
\* of usage.Track, pcErr and pc the answer of the provider config Get,
\* secretErr and secret the answer of the secret Get, redisClient and
\* clientErr the answer of newRedisClient.  calls lists the calls made.
Connect(mg, trackErr, pcErr, pc, secretErr, secret, redisClient, clientErr) ==
    LET track == <<[call |-> "Track"]>>
        getpc == track \o <<[call |-> "GetProviderConfig",
                             name |-> mg.providerConfigRef.Name]>>
        getsecret == getpc \o <<[call |-> "GetSecret",
                                 name |-> pc.SecretRef.Name]>>
        newclient == getsecret \o <<[call |-> "NewRedisClient",
                                     accessKeyId |-> secret.accessKeyId,
                                     accessKeySecret |-> secret.accessKeySecret,
                                     region |-> pc.Region]>>
    IN  IF ~mg.isInstance
        THEN [client |-> NoClient, err |-> ErrorsNew(errNotInstance, "Connect"),
              calls |-> <<>>]
        ELSE IF mg.providerConfigRef = NoRef
        THEN [client |-> NoClient, err |-> ErrorsNew(errNoProvider, "Connect"),
              calls |-> <<>>]
        ELSE IF trackErr # Nil
        THEN [client |-> NoClient, err |-> ErrorsWrap(trackErr, errTrackUsage),
              calls |-> track]
        ELSE IF pcErr # Nil
        THEN [client |-> NoClient,
              err |-> ErrorsWrap(pcErr, errGetProviderConfig), calls |-> getpc]
        ELSE IF pc.Source # CredentialsSourceSecret
        THEN [client |-> NoClient, err |-> UnsupportedCredSource(pc.Source),
              calls |-> getpc]
        ELSE IF pc.SecretRef = NoRef
        THEN [client |-> NoClient,
              err |-> ErrorsNew(errNoConnectionSecret, "Connect"),
              calls |-> getpc]
        ELSE IF secretErr # Nil
        THEN [client |-> NoClient,
              err |-> ErrorsWrap(secretErr, errGetConnectionSecret),
              calls |-> getsecret]
        ELSE [client |-> [redisClient |-> redisClient],
              err |-> ErrorsWrap(clientErr, errCreateClient),
              calls |-> newclient]

\* the environment of Connect
ManagedResources ==
    [isInstance : BOOLEAN, providerConfigRef : {NoRef, [Name |-> "default"]}]
KubeErrors == {Nil, ErrorsNew("boom", "kube")}
CredentialSources == {CredentialsSourceSecret, "Environment", ""}
ProviderConfigs ==
    [Source : CredentialSources,
     SecretRef : {NoRef, [Name |-> "creds"]},
     Region : {"cn-hangzhou"}]
Secrets == {[accessKeyId |-> "id", accessKeySecret |-> "secret"]}
ClientResults ==
    {[client |-> "redis-client", err |-> Nil],
     [client |-> NoClient, err |-> ErrorsNew("no client", "sdk")]}

ApplyConnect ==
    \E mg \in ManagedResources, trackErr \in KubeErrors, pcErr \in KubeErrors,
       pc \in ProviderConfigs, secretErr \in KubeErrors, secret \in Secrets,
       res \in ClientResults :
        LET r == Connect(mg, trackErr, pcErr, pc, secretErr, secret,
                         res.client, res.err)
        IN  /\ last' = [op |-> "Connect", ok |-> mg.isInstance,
                        in |-> [mg |-> mg, trackErr |-> trackErr,
                                pcErr |-> pcErr, pc |-> pc,
                                secretErr |-> secretErr,
                                clientErr |-> res.err],
                        pre |-> cr, out |-> r.client, err |-> r.err,
                        calls |-> r.calls]
            /\ UNCHANGED cr

SpecConnect == Init /\ [][ApplyConnect]_vars

\* the error the ordered list of failure cases gives for an input of
\* Connect: the first case that applies, Nil when none does
ConnectFailure(in) ==
    IF ~in.mg.isInstance
    THEN [kind |-> "fundamental", msg |-> errNotInstance, site |-> "Connect"]
    ELSE IF in.mg.providerConfigRef = NoRef
    THEN [kind |-> "fundamental", msg |-> errNoProvider, site |-> "Connect"]
    ELSE IF in.trackErr # Nil
    THEN [kind |-> "wrap", msg |-> errTrackUsage, cause |-> in.trackErr]
    ELSE IF in.pcErr # Nil
    THEN [kind |-> "wrap", msg |-> errGetProviderConfig, cause |-> in.pcErr]
    ELSE IF in.pc.Source # "Secret"
    THEN [kind |-> "fundamental",
          msg |-> "credentials source \"" \o in.pc.Source
                      \o "\" is not currently supported",
          site |-> "Connect"]
    ELSE IF in.pc.SecretRef = NoRef
    THEN [kind |-> "fundamental", msg |-> errNoConnectionSecret,
          site |-> "Connect"]
    ELSE IF in.secretErr # Nil
    THEN [kind |-> "wrap", msg |-> errGetConnectionSecret,
          cause |-> in.secretErr]
    ELSE IF in.clientErr # Nil
    THEN [kind |-> "wrap", msg |-> errCreateClient, cause |-> in.clientErr]
    ELSE Nil

\* the messages of the failure cases that do not depend on the input
ConnectMessages ==
    {errNotInstance, errNoProvider, errTrackUsage, errGetProviderConfig,
     errNoConnectionSecret, errGetConnectionSecret, errCreateClient}

\* C15: Connect fails with the error of the first failure case that
\* applies, in the order not an instance, no provider config reference,
\* usage tracking, provider config fetch, credentials source (the message
\* names the source), no secret reference, secret fetch, client
\* constructor; the errors of the cases differ; the error is nil only
\* when no case applies.
C15_ConnectErrorOrder ==
    (last.op = "Connect") =>
        /\ last.err = ConnectFailure(last.in)
        /\ Cardinality(ConnectMessages) = 7
        /\ last.err.kind = "fundamental" /\ last.err.msg \notin ConnectMessages
               => last.in.pc.Source # "Secret"

\* usage tracking fails while the credentials source is unsupported and no
\* secret is referenced: the tracking error is the one returned
C15_Witness ==
    /\ last.op = "Connect"
    /\ last.in.trackErr # Nil
    /\ last.in.pc.Source = "Environment"
    /\ last.in.pc.SecretRef = NoRef
    /\ last.err = [kind |-> "wrap", msg |-> errTrackUsage,
                   cause |-> last.in.trackErr]

\* ------------------------------------------------------------------------
\* Properties of Observe after a successful describe
\* ------------------------------------------------------------------------

\* the vendor status of the instance the describe call of Observe returned
DescribedStatus == last.in.describe.instances[1].InstanceStatus

\* C16: after a successful describe, the observed status of the resource
\* is the vendor status, and the Ready condition is decided by that
\* status alone: "Normal" gives Available, "Creating" gives Creating,
\* "Flushing" gives Deleting and any other status gives Unavailable.
C16_ObserveStatusCondition ==
    (/\ last.op = "Observe" /\ last.ok
     /\ last.pre.externalName # ""
     /\ DescribeSucceeded)
        => /\ cr.atProvider.InstanceStatus = DescribedStatus
           /\ cr.condition =
                CASE DescribedStatus = "Normal" -> "Available"
                  [] DescribedStatus = "Creating" -> "Creating"
                  [] DescribedStatus = "Flushing" -> "Deleting"
                  [] OTHER -> "Unavailable"

\* an instance the vendor reports as "Flushing", on a resource whose
\* condition was Creating before the call
C16_Witness ==
    /\ last.op = "Observe" /\ last.ok
    /\ last.pre.externalName # ""
    /\ DescribeSucceeded
    /\ DescribedStatus = "Flushing"
    /\ last.pre.condition = "Creating"
    /\ cr.condition = "Deleting"

\* the passwords of the model: the one of the spec and the generated one
Passwords ==
    {last.pre.forProvider.Password} \cup {g.pw : g \in PasswordResults}

\* C17: the connection details Observe returns have no password key, and
\* no value of them is the password of the spec or a generated password.
C17_ObserveNoPassword ==
    (last.op = "Observe")
        => /\ PasswordKey \notin DOMAIN last.out.ConnectionDetails
           /\ \A k \in DOMAIN last.out.ConnectionDetails :
                last.out.ConnectionDetails[k] \notin Passwords

\* a successful Observe of a resource whose spec has a password, which
\* returns the endpoint and the port
C17_Witness ==
    /\ last.op = "Observe" /\ last.ok
    /\ last.pre.forProvider.Password = "user-pw"
    /\ last.err = Nil
    /\ DOMAIN last.out.ConnectionDetails = {EndpointKey, PortKey}

\* ------------------------------------------------------------------------
\* calculateSpecDiff
\* ------------------------------------------------------------------------

\* largest read-only replica count of the model
MaxReadOnlyCount == 1

RedisArchTypeCluster == "cluster"
RedisArchTypeStandard == "standard"
EffectiveTimeMaintain == "MaintainTime"

\* aliredis.CreateModifyInstanceSpecRequest(): no field is set
EmptyModifySpecRequest ==
    [EffectiveTime |-> "", InstanceClass |-> "", ReadOnlyCount |-> ""]

\* requests.NewInteger
NewInteger(n) == Itoa(n)

\* an *int is the empty set (nil) or the set of the integer it points to
Deref(ptr) == CHOOSE n \in ptr : TRUE

ObservedInstanceClassMutNominal(attr) ==
    attr.InstanceClass

\* the instance class calculateSpecDiff compares the desired one with
ObservedInstanceClass(attr) ==
    IF attr.ArchitectureType = RedisArchTypeCluster
    THEN attr.RealInstanceClass
    ELSE attr.InstanceClass

calculateSpecDiff(attr, p) ==
    LET diff == [EmptyModifySpecRequest EXCEPT !.EffectiveTime = p.EffectiveTime]
    IN  IF ObservedInstanceClass(attr) # p.InstanceClass
        THEN [diff EXCEPT !.InstanceClass = p.InstanceClass]
        ELSE IF p.ReadOnlyCount # {} /\ attr.ReadOnlyCount # Deref(p.ReadOnlyCount)
        THEN [diff EXCEPT !.ReadOnlyCount = NewInteger(Deref(p.ReadOnlyCount))]
        ELSE NoRequest

\* the inputs of calculateSpecDiff
InstanceClasses == {"redis.master.small.default", "redis.master.mid.default"}
ReadOnlyCounts == 0..MaxReadOnlyCount
SpecAttributes ==
    [ArchitectureType : {RedisArchTypeCluster, RedisArchTypeStandard, ""},
     RealInstanceClass : InstanceClasses,
     InstanceClass : InstanceClasses,
     ReadOnlyCount : ReadOnlyCounts]
SpecParameters ==
    [InstanceClass : InstanceClasses \cup {""},
     ReadOnlyCount : {{}} \cup {{n} : n \in ReadOnlyCounts},
     EffectiveTime : {"", EffectiveTimeMaintain}]

ApplyCalculateSpecDiff ==
    \E attr \in SpecAttributes, p \in SpecParameters :
        /\ last' = [op |-> "calculateSpecDiff", ok |-> TRUE,
                    in |-> [attr |-> attr, p |-> p], pre |-> cr,
                    out |-> calculateSpecDiff(attr, p), err |-> Nil,
                    calls |-> <<>>]
        /\ UNCHANGED cr

SpecSpecDiff == Init /\ [][ApplyCalculateSpecDiff]_vars

\* the desired class is the observed one: the real class of a cluster
\* instance, the nominal class of any other
ClassMatches ==
    last.in.p.InstanceClass =
        (IF last.in.attr.ArchitectureType = "cluster"
         THEN last.in.attr.RealInstanceClass
         ELSE last.in.attr.InstanceClass)

\* the desired read-only count is unset or the observed one
CountMatches ==
    \/ last.in.p.ReadOnlyCount = {}
    \/ last.in.p.ReadOnlyCount = {last.in.attr.ReadOnlyCount}

\* C18: calculateSpecDiff returns no request exactly when the class
\* matches and the read-only count is unset or matches; on a class
\* mismatch the request sets the desired class and no read-only count; on
\* a count mismatch with a matching class it sets the desired count and
\* no class; no request sets both.
C18_SpecDiffOneChange ==
    (last.op = "calculateSpecDiff") =>
        /\ (last.out = NoRequest) <=> (ClassMatches /\ CountMatches)
        /\ ~ClassMatches =>
             /\ last.out.InstanceClass = last.in.p.InstanceClass
             /\ last.out.ReadOnlyCount = ""
        /\ (ClassMatches /\ ~CountMatches) =>
             /\ last.out.InstanceClass = ""
             /\ \E n \in last.in.p.ReadOnlyCount : last.out.ReadOnlyCount = Itoa(n)
        /\ last.out # NoRequest =>
             ~(last.out.InstanceClass # "" /\ last.out.ReadOnlyCount # "")

\* a cluster instance whose real class differs from the desired class,
\* while the nominal class is the desired one and the count differs too
C18_Witness ==
    /\ last.op = "calculateSpecDiff"
    /\ last.in.attr.ArchitectureType = "cluster"
    /\ last.in.attr.InstanceClass = last.in.p.InstanceClass
    /\ last.in.attr.RealInstanceClass # last.in.p.InstanceClass
    /\ last.in.p.ReadOnlyCount = {1}
    /\ last.in.attr.ReadOnlyCount = 0
    /\ last.out # NoRequest
    /\ last.out.InstanceClass = last.in.p.InstanceClass
    /\ last.out.ReadOnlyCount = ""

\* ------------------------------------------------------------------------
\* calculateParamDiff
\* ------------------------------------------------------------------------

\* largest number of members of a JSON object of the model
MaxMembers == 2

errFailedToUnmarshalWantedConfig == "cannot unmarshal the json config from users input"
errFailedToUnmarshalRealConfig == "cannot unmarshal the json config from the real instance"

\* A JSON text is the empty string, a text that is no JSON, or an object:
\* the sequence of its members as written, each a key and a value that is
\* a JSON string or a JSON number.
EmptyText == [kind |-> "empty"]
InvalidText == [kind |-> "invalid"]
ObjectText(members) == [kind |-> "object", members |-> members]

\* the parameter names of the model, in the order of their bytes
ParamKeys == <<"appendonly", "maxmemory-policy">>
ParamStrings == {"yes", "no"}
JsonMembers ==
    {[key |-> ParamKeys[i], value |-> [type |-> "string", text |-> s]] :
        i \in 1..Len(ParamKeys), s \in ParamStrings}
    \cup {[key |-> ParamKeys[1], value |-> [type |-> "number", text |-> "1"]]}
JsonTexts ==
    {EmptyText, InvalidText}
    \cup {ObjectText(m) : m \in UNION {[1..n -> JsonMembers] : n \in 0..MaxMembers}}

\* a Go map[string]string is a function from its keys; this is the nil map
\* and the empty map
EmptyMap == [k \in {} |-> ""]

\* the map after m[key] = val
MapSet(m, key, val) ==
    [k \in DOMAIN m \cup {key} |-> IF k = key THEN val ELSE m[k]]

\* decoding the members of an object in the order written: a later member
\* replaces an earlier one of the same key
RECURSIVE DecodeMembers(_)
DecodeMembers(members) ==
    IF members = <<>> THEN EmptyMap
    ELSE LET n == Len(members)
         IN  MapSet(DecodeMembers(SubSeq(members, 1, n - 1)),
                    members[n].key, members[n].value.text)

\* json.Unmarshal(text, &m) for m a map[string]string
Unmarshal(text) ==
    IF text.kind = "empty"
    THEN [map |-> EmptyMap,
          err |-> [kind |-> "json", msg |-> "unexpected end of JSON input"]]
    ELSE IF text.kind = "invalid"
    THEN [map |-> EmptyMap, err |-> [kind |-> "json", msg |-> "invalid character"]]
    ELSE IF \E i \in 1..Len(text.members) : text.members[i].value.type # "string"
    THEN [map |-> EmptyMap,
          err |-> [kind |-> "json",
                   msg |-> "cannot unmarshal number into Go value of type string"]]
    ELSE [map |-> DecodeMembers(text.members), err |-> Nil]

\* json.Marshal(m) for m a map[string]string: the members sorted by key
RECURSIVE MarshalMembers(_, _)
MarshalMembers(m, i) ==
    IF i > Len(ParamKeys) THEN <<>>
    ELSE IF ParamKeys[i] \in DOMAIN m
    THEN <<[key |-> ParamKeys[i],
            value |-> [type |-> "string", text |-> m[ParamKeys[i]]]]>>
             \o MarshalMembers(m, i + 1)
    ELSE MarshalMembers(m, i + 1)

Marshal(m) == ObjectText(MarshalMembers(m, 1))

RangeStepMutMissingOnly(actual, needUpdate, key, val) ==
    IF key \notin DOMAIN actual
    THEN [actual |-> MapSet(actual, key, val), needUpdate |-> TRUE]
    ELSE [actual |-> actual, needUpdate |-> needUpdate]

\* one pass of the loop of calculateParamDiff over the wanted parameters
RangeStep(actual, needUpdate, key, val) ==
    LET ok == key \in DOMAIN actual
    IN  IF (ok /\ actual[key] # val) \/ ~ok
        THEN [actual |-> MapSet(actual, key, val), needUpdate |-> TRUE]
        ELSE [actual |-> actual, needUpdate |-> needUpdate]

\* the loop, over the keys of wanted that are left
RECURSIVE RangeWanted(_, _, _, _)
RangeWanted(wanted, keys, actual, needUpdate) ==
    IF keys = {} THEN [actual |-> actual, needUpdate |-> needUpdate]
    ELSE LET key == CHOOSE k \in keys : TRUE
             step == RangeStep(actual, needUpdate, key, wanted[key])
         IN  RangeWanted(wanted, keys \ {key}, step.actual, step.needUpdate)

\* calculateParamDiff; json.Marshal of a map of strings cannot fail
calculateParamDiff(attr, p) ==
    IF p.ParameterConfig = EmptyText THEN [req |-> NoRequest, err |-> Nil]
    ELSE
    LET actual == Unmarshal(attr.Config)
        wanted == Unmarshal(p.ParameterConfig)
    IN  IF actual.err # Nil
        THEN [req |-> NoRequest,
              err |-> ErrorsWrap(actual.err, errFailedToUnmarshalRealConfig)]
        ELSE IF wanted.err # Nil
        THEN [req |-> NoRequest,
              err |-> ErrorsWrap(wanted.err, errFailedToUnmarshalWantedConfig)]
        ELSE
        LET r == RangeWanted(wanted.map, DOMAIN wanted.map, actual.map, FALSE)
            configStr == Marshal(r.actual)
        IN  IF r.needUpdate
            THEN [req |-> [Parameters |-> configStr], err |-> Nil]
            ELSE [req |-> NoRequest, err |-> Nil]

\* one application of calculateParamDiff to an observed and a desired
\* parameter configuration
ApplyCalculateParamDiff ==
    /\ last.op = "none"
    /\ \E config \in JsonTexts, parameterConfig \in JsonTexts :
        LET r == calculateParamDiff([Config |-> config],
                                    [ParameterConfig |-> parameterConfig])
        IN  last' = [op |-> "calculateParamDiff", ok |-> TRUE,
                     in |-> [Config |-> config,
                             ParameterConfig |-> parameterConfig],
                     pre |-> cr, out |-> r.req, err |-> r.err, calls |-> <<>>]
    /\ UNCHANGED cr

SpecParamDiff == Init /\ [][ApplyCalculateParamDiff]_vars

\* the actual and the desired mapping of the call
ActualMapping == Unmarshal(last.in.Config).map
DesiredMapping == Unmarshal(last.in.ParameterConfig).map
BothDecode ==
    /\ Unmarshal(last.in.Config).err = Nil
    /\ Unmarshal(last.in.ParameterConfig).err = Nil

\* some desired key is missing from the actual mapping or has another
\* value there
ParameterDrift ==
    \E k \in DOMAIN DesiredMapping :
        k \notin DOMAIN ActualMapping \/ ActualMapping[k] # DesiredMapping[k]

ModifyClassCall ==
    [api |-> "ModifyInstanceSpec", InstanceId |-> last.pre.externalName,
     InstanceClass |-> last.pre.forProvider.InstanceClass]

\* C20: Update of a resource with a non-empty desired instance class
\* sets the Creating condition, issues exactly one vendor modify call,
\* for the external ID and with the desired instance class only, and
\* returns an empty ExternalUpdate, with a nil error exactly when the
\* modify call succeeded.
C20_UpdateModifiesClass ==
    (/\ last.op = "Update" /\ last.ok
     /\ last.pre.forProvider.InstanceClass # "")
        => /\ cr.condition = "Creating"
           /\ last.calls = <<ModifyClassCall>>
           /\ last.out = [ConnectionDetails |-> EmptyConnectionDetails]
           /\ (last.err = Nil) <=> (last.in.modify.err = Nil)

\* a successful update of an instance that was observed as running
C20_Witness ==
    /\ last.op = "Update" /\ last.ok
    /\ last.pre.forProvider.InstanceClass = "redis.master.small.default"
    /\ last.pre.externalName = "r-1"
    /\ last.pre.condition = "Available"
    /\ last.in.modify.err = Nil
    /\ cr.condition = "Creating"
    /\ last.err = Nil

\* ------------------------------------------------------------------------
\* IsErrorNotFound on the errors the client returns
\* ------------------------------------------------------------------------

\* largest number of descriptive prefixes wrapped around an error
MaxWraps == 2

\* the prefixes the client and the controller wrap errors with
ErrorPrefixes == {errDescribeInstanceFailed, errDeleteFailed}

\* the errors of a vendor call and the instance-not-found error of
\* DescribeInstance, as the SDK and the client make them
PlainErrors ==
    {FailureError(f, r) : f \in Failures, r \in RequestIds}
    \cup {ErrorsNew(errInstanceNotFound, "DescribeInstance")}

\* the errors of a set, wrapped up to n times
RECURSIVE WrappedErrors(_, _)
WrappedErrors(errs, n) ==
    IF n = 0 THEN errs
    ELSE LET inner == WrappedErrors(errs, n - 1)
         IN  inner \cup {ErrorsWrap(e, p) : e \in inner, p \in ErrorPrefixes}

ClassifiedErrors == {Nil} \cup WrappedErrors(PlainErrors, MaxWraps)

\* one application of IsErrorNotFound
ApplyIsErrorNotFound ==
    /\ last.op = "none"
    /\ \E e \in ClassifiedErrors :
        last' = [op |-> "IsErrorNotFound", ok |-> TRUE, in |-> e, pre |-> cr,
                 out |-> IsErrorNotFound(e), err |-> Nil, calls |-> <<>>]
    /\ UNCHANGED cr

\* an error is classified as it is, after CleanError, and after CleanError
\* and errors.Wrap, as DescribeInstance does
ApplyCleanThenClassify ==
    /\ last.op = "none"
    /\ \E e \in ClassifiedErrors, p \in ErrorPrefixes :
        last' = [op |-> "CleanThenClassify", ok |-> TRUE,
                 in |-> [err |-> e, prefix |-> p], pre |-> cr,
                 out |-> [direct |-> IsErrorNotFound(e),
                          cleaned |-> IsErrorNotFound(CleanError(e)),
                          wrapped |-> IsErrorNotFound(ErrorsWrap(CleanError(e), p))],
                 err |-> Nil, calls |-> <<>>]
    /\ UNCHANGED cr

NextClassify == ApplyIsErrorNotFound \/ ApplyCleanThenClassify

SpecClassify == Init /\ [][NextClassify]_vars

\* the error at the bottom of a chain of prefixes
RECURSIVE RootCause(_)
RootCause(e) == IF e.kind = "wrap" THEN RootCause(e.cause) ELSE e

\* C21: IsErrorNotFound is false for the nil error; for a vendor server
\* error, bare or wrapped with prefixes, it is true when the code is
\* "InvalidInstanceId.NotFound" and false for any other code.
C21_NotFoundByCode ==
    (last.op = "IsErrorNotFound") =>
        /\ last.in = Nil => last.out = FALSE
        /\ RootCause(last.in).kind = "server" =>
             (last.out <=> RootCause(last.in).code = "InvalidInstanceId.NotFound")

\* a not-found server error under two prefixes is classified as not found
C21_Witness ==
    /\ last.op = "IsErrorNotFound"
    /\ last.in.kind = "wrap"
    /\ last.in.cause.kind = "wrap"
    /\ last.in.cause.cause.kind = "server"
    /\ last.in.cause.cause.code = "InvalidInstanceId.NotFound"
    /\ last.out = TRUE

\* C27: an error is classified as not found after CleanError, and after
\* CleanError followed by a wrap with a prefix, exactly when it is
\* classified as not found as it is.
C27_CleanKeepsClassification ==
    (last.op = "CleanThenClassify") =>
        /\ last.out.cleaned = last.out.direct
        /\ last.out.wrapped = last.out.direct

\* a not-found server error with a request ID stays not found when it is
\* cleaned and wrapped
C27_Witness ==
    /\ last.op = "CleanThenClassify"
    /\ last.in.err.kind = "server"
    /\ last.in.err.requestId = "req-1"
    /\ last.in.err.code = "InvalidInstanceId.NotFound"
    /\ last.out.direct /\ last.out.cleaned /\ last.out.wrapped

\* ------------------------------------------------------------------------
\* Vendor calls and vendor failures of one invocation
\* ------------------------------------------------------------------------

ExternalOps == {"Observe", "Create", "Update", "Delete"}

\* the vendor API calls of the invocation (the status update of Create
\* goes to the Kubernetes API server)
VendorCalls == {i \in DOMAIN last.calls : last.calls[i].api # "StatusUpdate"}

\* the error the vendor answered the call of the invocation with
VendorAnswer ==
    CASE last.op = "Observe" -> last.in.describe.err
      [] last.op = "Create" -> last.in.create.err
      [] last.op = "Update" -> last.in.modify.err
      [] last.op = "Delete" -> last.in.delete.err

\* the invocation issued a vendor call and the vendor failed it
SawVendorFailure == VendorCalls # {} /\ VendorAnswer # Nil

\* the invocation returned the vendor failure: its error is the cleaned
\* vendor error, bare or under prefixes
ReturnsVendorFailure ==
    last.err # Nil /\ RootCause(last.err) = CleanError(VendorAnswer)

\* C22, as claimed: an invocation issues at most one vendor call, and
\* every vendor failure it sees is returned to its caller.
C22_EveryFailureReturned ==
    (last.op \in ExternalOps /\ last.ok)
        => /\ Cardinality(VendorCalls) <= 1
           /\ SawVendorFailure => ReturnsVendorFailure

\* C22, amended: an invocation issues at most one vendor call; a vendor
\* failure it sees is returned to its caller, except a not-found failure
\* of the describe call of Observe or of the delete call of Delete, for
\* which the invocation returns a nil error.
C22_FailureReturnedUnlessNotFound ==
    (last.op \in ExternalOps /\ last.ok)
        => /\ Cardinality(VendorCalls) <= 1
           /\ SawVendorFailure =>
                IF last.op \in {"Observe", "Delete"} /\ IsVendorNotFound(VendorAnswer)
                THEN last.err = Nil
                ELSE ReturnsVendorFailure

\* a delete call that the vendor throttles: one call, the error returned
C22_Witness ==
    /\ last.op = "Delete" /\ last.ok
    /\ last.in.delete.err # Nil
    /\ last.in.delete.err.kind = "server"
    /\ last.in.delete.err.code = "Throttling.User"
    /\ Cardinality(VendorCalls) = 1
    /\ ReturnsVendorFailure

\* ------------------------------------------------------------------------
\* What the operations write on the resource
\* ------------------------------------------------------------------------

\* C23: no step of Observe, Create, Update or Delete changes the desired
\* spec (spec.forProvider) of the resource, so that no sequence of them
\* does.
C23_DesiredSpecUnchanged ==
    [][cr'.forProvider = cr.forProvider]_vars

\* a successful Create that generated the password: the external name is
\* written, the spec still has no password
C23_Witness ==
    /\ last.op = "Create" /\ last.ok
    /\ last.err = Nil
    /\ last.pre.forProvider.Password = ""
    /\ last.out.ConnectionDetails[PasswordKey] = "generated-pw"
    /\ cr.externalName # last.pre.externalName
    /\ cr.forProvider = last.pre.forProvider

\* C24: after Observe, Update or Delete, with or without error, the
\* external name is the one before the call; a Create that changes the
\* external name returned a nil error.
C24_ExternalNameWriters ==
    /\ (last.op \in {"Observe", "Update", "Delete"})
         => cr.externalName = last.pre.externalName
    /\ (last.op = "Create" /\ cr.externalName # last.pre.externalName)
         => last.err = Nil

\* a Delete whose vendor call succeeded keeps the external name
C24_Witness ==
    /\ last.op = "Delete" /\ last.ok
    /\ last.in.delete.err = Nil
    /\ last.err = Nil
    /\ last.pre.externalName = "r-1"
    /\ cr.externalName = "r-1"

\* ------------------------------------------------------------------------
\* The connection secret the host keeps (managed.Reconciler, wired in
\* SetupRedisInstance): after a Create or an Observe that returned no
\* error the host publishes the connection details the call emitted
\* ------------------------------------------------------------------------

\* publishing: an emitted key overrides the stored one, an absent key
\* keeps the stored one
PublishConnectionDetails(stored, emitted) ==
    [k \in DOMAIN stored \cup DOMAIN emitted |->
        IF k \in DOMAIN emitted THEN emitted[k] ELSE stored[k]]

\* the secret so far, and the details the last successful Create emitted;
\* both are empty before the first call
StoredSecret ==
    IF "secret" \in DOMAIN last THEN last.secret ELSE EmptyConnectionDetails
CreatedDetails ==
    IF "created" \in DOMAIN last THEN last.created ELSE EmptyConnectionDetails

\* the record of a call of the host, with the secret after it
Published(op, in, r, created) ==
    /\ cr' = r.cr
    /\ last' = [op |-> op, ok |-> TRUE, in |-> in, pre |-> cr,
                out |-> r.out, err |-> r.err, calls |-> r.calls,
                secret |-> IF r.err = Nil
                           THEN PublishConnectionDetails(
                                    StoredSecret, r.out.ConnectionDetails)
                           ELSE StoredSecret,
                created |-> created]

PublishObserve ==
    \E d \in DescribeResponses :
        Published("Observe", [describe |-> d], Observe(cr, TRUE, d),
                  CreatedDetails)

PublishCreate ==
    /\ ObservedNotExists
    /\ \E u \in StatusUpdateErrors, g \in PasswordResults, c \in CreateResponses :
        LET r == Create(cr, TRUE, u, g, c)
        IN  Published("Create", [update |-> u, gen |-> g, create |-> c], r,
                      IF r.err = Nil THEN r.out.ConnectionDetails
                      ELSE CreatedDetails)

NextSecret == PublishObserve \/ PublishCreate

SpecSecret == InitHost /\ [][NextSecret]_vars

\* C25: the secret the host accumulates holds the username and the
\* password that the last successful Create emitted, with the values it
\* emitted, after any number of Observe calls that followed it.
C25_SecretKeepsCredentials ==
    \A k \in {UserKey, PasswordKey} \cap DOMAIN CreatedDetails :
        /\ k \in DOMAIN StoredSecret
        /\ StoredSecret[k] = CreatedDetails[k]

\* a Create that generated the password, then an Observe that emitted
\* the endpoint and the port: the secret has all four keys
C25_Witness ==
    /\ last.op = "Observe"
    /\ last.err = Nil
    /\ DOMAIN last.out.ConnectionDetails = {EndpointKey, PortKey}
    /\ PasswordKey \in DOMAIN CreatedDetails
    /\ CreatedDetails[PasswordKey] = "generated-pw"
    /\ DOMAIN StoredSecret = {UserKey, PasswordKey, EndpointKey, PortKey}
    /\ StoredSecret[PasswordKey] = "generated-pw"
    /\ StoredSecret[UserKey] = cr.externalName

\* ------------------------------------------------------------------------
\* Create whose vendor call fails
\* ------------------------------------------------------------------------

\* Create issued the vendor create call and the vendor failed it
CreateCallFailed ==
    /\ last.op = "Create" /\ last.ok
    /\ CreateCalls # {}
    /\ last.in.create.err # Nil

\* C26: a Create whose vendor call fails returns the vendor error wrapped
\* as a create failure, emits no connection details and leaves the
\* external name as it was; when the resource had no external name, an
\* Observe that follows reports non-existence with a nil error.
C26_FailedCreateLeavesNoTrace ==
    /\ [](CreateCallFailed =>
            /\ last.err = [kind |-> "wrap", msg |-> errCreateFailed,
                           cause |-> CleanError(last.in.create.err)]
            /\ last.out.ConnectionDetails = EmptyConnectionDetails
            /\ cr.externalName = last.pre.externalName)
    /\ [][(/\ CreateCallFailed
           /\ last.pre.externalName = ""
           /\ last'.op = "Observe" /\ last'.ok)
              => /\ last'.out.ResourceExists = FALSE
                 /\ last'.err = Nil]_vars

\* a throttled create call on a resource without external name
C26_Witness ==
    /\ CreateCallFailed
    /\ last.in.create.err.kind = "server"
    /\ last.in.create.err.code = "Throttling.User"
    /\ last.pre.externalName = ""
    /\ cr.externalName = ""
    /\ last.err # Nil

\* ------------------------------------------------------------------------
\* Observe on a describe answer without instances
\* ------------------------------------------------------------------------

\* the vendor answered the describe call of Observe without error and
\* with an empty instance list
DescribedNoInstance ==
    /\ last.op = "Observe" /\ last.ok
    /\ last.pre.externalName # ""
    /\ last.in.describe.err = Nil
    /\ last.in.describe.instances = <<>>

\* C28: the instance-not-found error DescribeInstance returns for an
\* empty instance list is classified as not found by IsErrorNotFound, so
\* that Observe answers as for a vendor not-found error: a nil error and
\* an empty observation.
C28_EmptyDescribeIsNotFound ==
    DescribedNoInstance
        => /\ IsErrorNotFound(
                DescribeInstance(last.pre.externalName, last.in.describe).err)
           /\ last.err = Nil
           /\ last.out.ResourceExists = FALSE

\* ------------------------------------------------------------------------
\* The tags of the create request
\* ------------------------------------------------------------------------

\* largest number of tags of a spec
MaxTags == 2

\* the zero value of aliredis.CreateInstanceTag
ZeroTag == [Key |-> "", Value |-> ""]

\* make([]aliredis.CreateInstanceTag, n): a slice of n zero values
MakeTags(n) == [i \in 1..n |-> ZeroTag]

\* client.CreateInstance, the tags of the request: the loop appends one
\* entry per tag of the spec to the slice that make returned
CreateInstanceTags(tags) ==
    MakeTags(Len(tags))
        \o [i \in 1..Len(tags) |-> [Key |-> tags[i].Key, Value |-> tags[i].Value]]

\* v1alpha1.Tag values and the tag lists of a spec
SpecTags == [Key : {"env", "team"}, Value : {"prod", "dev"}]
SpecTagLists == UNION {[1..n -> SpecTags] : n \in 0..MaxTags}

ApplyCreateInstanceTags ==
    /\ \E tags \in SpecTagLists :
        last' = [op |-> "CreateInstanceTags", ok |-> TRUE, in |-> tags,
                 pre |-> cr, out |-> CreateInstanceTags(tags), err |-> Nil,
                 calls |-> <<>>]
    /\ UNCHANGED cr

SpecCreateTags == Init /\ [][ApplyCreateInstanceTags]_vars

\* C29: the tags of the create request are the tags of the spec: as many
\* entries, each with the key and the value of the spec tag at the same
\* position.
C29_RequestTagsAreSpecTags ==
    (last.op = "CreateInstanceTags")
        => /\ Len(last.out) = Len(last.in)
           /\ \A i \in 1..Len(last.in) :
                /\ last.out[i].Key = last.in[i].Key
                /\ last.out[i].Value = last.in[i].Value

\* C30: for a non-empty desired allowlist SecurityIpsNeedUpdate returns
\* no request exactly when every address of the configured list is an
\* element of the desired list; an address that is only part of a desired
\* address is not an element.
C30_WholeAddressMembership ==
    (last.op = "SecurityIpsNeedUpdate" /\ last.in.desired # <<>>)
        => ((last.out = NoRequest)
              <=> (\A i \in 1..Len(last.in.configured) :
                     \E j \in 1..Len(last.in.desired) :
                        last.in.configured[i] = last.in.desired[j]))

====
